---- MODULE Spec2Model ----
(***************************************************************************)
(* Editorial segmentation and contest-aware matching of codeforces-rag.   *)
(*                                                                         *)
(* The model follows parser/src/infrastructure/parsers/                    *)
(* editorial_content_parser.py (EditorialContentParser) and                *)
(* parser/src/services/contest.py (ContestService.get_contest).            *)
(*                                                                         *)
(* Text is a sequence of one-character strings, so that find, strip,       *)
(* slicing and the JSON decoder work on characters as the Python code      *)
(* does.  Chars("abc") = <<"a", "b", "c">>.                                *)
(***************************************************************************)
EXTENDS Integers, Sequences, FiniteSets, TLC

Chars(str) == [i \in 1..Len(str) |-> SubSeq(str, i, i)]

(***************************************************************************)
(* Python values that are not text.  None is a one-element sequence whose  *)
(* element is no character, so it differs from every text.                 *)
(***************************************************************************)
None == <<"<None>">>

(***************************************************************************)
(* Character classes of str.isalpha, str.isdigit, str.upper and of the     *)
(* whitespace that str.strip removes, over the characters the model uses.  *)
(***************************************************************************)
\* The Cyrillic letters of line 491 are written with the names of the
\* letters: "CYR_ZE" is the capital ze, "cyr_ze" the small one.
LowerChars == Chars("abcdefghijklmnopqrstuvwxyz") \o <<"cyr_ze", "cyr_a", "cyr_de", "cyr_che">>
UpperChars == Chars("ABCDEFGHIJKLMNOPQRSTUVWXYZ") \o <<"CYR_ZE", "CYR_A", "CYR_DE", "CYR_CHE">>
DigitChars == Chars("0123456789")

IsLower(c) == \E i \in 1..Len(LowerChars) : LowerChars[i] = c
IsUpper(c) == \E i \in 1..Len(UpperChars) : UpperChars[i] = c
IsAlpha(c) == IsLower(c) \/ IsUpper(c)
IsDigit(c) == \E i \in 1..10 : DigitChars[i] = c
IsSpace(c) == c \in {" ", "\t", "\n", "\r", "\f"}

\* no case folding
AsWritten(s) == s

UpperChar(c) == IF IsLower(c) THEN UpperChars[CHOOSE i \in 1..Len(LowerChars) : LowerChars[i] = c] ELSE c
Upper(s) == [i \in 1..Len(s) |-> UpperChar(s[i])]

\* s[lo:hi] of Python with 0 <= lo, written with 1-based bounds: the
\* characters lo..hi of s (empty when hi < lo).
Slice(s, lo, hi) == IF hi < lo THEN <<>> ELSE SubSeq(s, lo, IF hi > Len(s) THEN Len(s) ELSE hi)

RECURSIVE LStripFrom(_, _)
LStripFrom(s, i) == IF i <= Len(s) /\ IsSpace(s[i]) THEN LStripFrom(s, i + 1) ELSE i
RECURSIVE RStripTo(_, _)
RStripTo(s, j) == IF j >= 1 /\ IsSpace(s[j]) THEN RStripTo(s, j - 1) ELSE j

\* str.rstrip() and str.strip()
RStrip(s) == Slice(s, 1, RStripTo(s, Len(s)))
Strip(s) == Slice(s, LStripFrom(s, 1), RStripTo(s, Len(s)))

\* s.startswith(p) at 1-based position i
MatchAt(s, p, i) == /\ i >= 1
                    /\ i + Len(p) - 1 <= Len(s)
                    /\ \A k \in 1..Len(p) : s[i + k - 1] = p[k]

\* str.find(p, from): the 1-based position of the first occurrence of p at
\* or after position from, 0 when there is none (Python: -1).
FindFrom(s, p, from) ==
    LET at == {i \in from..(Len(s) - Len(p) + 1) : MatchAt(s, p, i)} IN
    IF at = {} THEN 0 ELSE CHOOSE i \in at : \A j \in at : i <= j
Find(s, p) == FindFrom(s, p, 1)

\* p in s
Contains(s, p) == Find(s, p) # 0

\* s.count(c) for a character c
Count(s, c) == Cardinality({i \in 1..Len(s) : s[i] = c})

(***************************************************************************)
(* json.loads.  A decoded value is a record [t, v]:                        *)
(*   t = "str"   v the text                                                *)
(*   t = "int"   v the digits as str(int) prints them                      *)
(*   t = "float" v the lexeme                                              *)
(*   t = "bool"  v "True" or "False" as text                               *)
(*   t = "null"  v <<>>                                                    *)
(*   t = "arr"   v the sequence of values                                  *)
(*   t = "obj"   v the sequence of <<key, value>> pairs in dict order      *)
(* A decoder step returns [ok, v, i]: the value and the position after it. *)
(***************************************************************************)
JStr(s) == [t |-> "str", v |-> s]
JNull == [t |-> "null", v |-> <<>>]
JBool(b) == [t |-> "bool", v |-> IF b THEN Chars("True") ELSE Chars("False")]
JArr(vs) == [t |-> "arr", v |-> vs]
JObj(ps) == [t |-> "obj", v |-> ps]
JFail == [ok |-> FALSE, v |-> JNull, i |-> 0]
JOk(val, next) == [ok |-> TRUE, v |-> val, i |-> next]

JsonWs == {" ", "\t", "\n", "\r"}
ControlChars == {"\n", "\t", "\r", "\f"}
HexChars == Chars("0123456789abcdefABCDEF")
IsHex(c) == \E i \in 1..Len(HexChars) : HexChars[i] = c

RECURSIVE SkipWs(_, _)
SkipWs(s, i) == IF i <= Len(s) /\ s[i] \in JsonWs THEN SkipWs(s, i + 1) ELSE i

\* dict[key] = value: replaces the value of an existing key in place,
\* appends a new key.
DictPut(ps, k, val) ==
    IF \E n \in 1..Len(ps) : ps[n][1] = k
    THEN [n \in 1..Len(ps) |-> IF ps[n][1] = k THEN <<k, val>> ELSE ps[n]]
    ELSE Append(ps, <<k, val>>)
DictHas(ps, k) == \E n \in 1..Len(ps) : ps[n][1] = k
DictGet(ps, k) == ps[CHOOSE n \in 1..Len(ps) : ps[n][1] = k][2]

\* BACKSLASH of json.decoder: the character an escape letter stands for.
\* The backspace of \b is written as the character "\\b" of the model.
Backspace == "\\b"
IsEscapeLetter(e) == e \in {"\"", "\\", "/", "b", "f", "n", "r", "t"}
Unescape(e) ==
    CASE e = "b" -> Backspace
      [] e = "f" -> "\f"
      [] e = "n" -> "\n"
      [] e = "r" -> "\r"
      [] e = "t" -> "\t"
      [] OTHER -> e

\* py_scanstring(s, i, strict=True): i is the position after the opening
\* quote.  A \uXXXX escape decodes to one character, written "\\uXXXX".
RECURSIVE ScanString(_, _, _)
ScanString(s, i, acc) ==
    IF i > Len(s) THEN JFail
    ELSE IF s[i] = "\"" THEN JOk(acc, i + 1)
    ELSE IF s[i] = "\\" THEN
        IF i + 1 > Len(s) THEN JFail
        ELSE IF IsEscapeLetter(s[i + 1]) THEN ScanString(s, i + 2, Append(acc, Unescape(s[i + 1])))
        ELSE IF s[i + 1] = "u" /\ i + 5 <= Len(s) /\ \A k \in 2..5 : IsHex(s[i + k])
             THEN ScanString(s, i + 6, Append(acc, "\\u" \o s[i + 2] \o s[i + 3] \o s[i + 4] \o s[i + 5]))
        ELSE JFail
    ELSE IF s[i] \in ControlChars \/ s[i] = Backspace THEN JFail
    ELSE ScanString(s, i + 1, Append(acc, s[i]))

RECURSIVE DigitsEnd(_, _)
DigitsEnd(s, i) == IF i <= Len(s) /\ IsDigit(s[i]) THEN DigitsEnd(s, i + 1) ELSE i

\* NUMBER_RE = (-?(?:0|[1-9]\d*))(\.\d+)?([eE][-+]?\d+)? matched at i: the
\* position after each group, 0 where the integer part does not match.
IntEnd(s, d) ==
    IF d > Len(s) \/ ~IsDigit(s[d]) THEN 0
    ELSE IF s[d] = "0" THEN d + 1
    ELSE DigitsEnd(s, d)
FracEnd(s, intEnd) ==
    IF intEnd # 0 /\ intEnd + 1 <= Len(s) /\ s[intEnd] = "." /\ IsDigit(s[intEnd + 1])
    THEN DigitsEnd(s, intEnd + 1) ELSE intEnd
ExpSign(s, e1) == IF e1 <= Len(s) /\ s[e1] \in {"-", "+"} THEN e1 + 1 ELSE e1
ExpDigits(s, fracEnd, e2) == IF e2 <= Len(s) /\ IsDigit(s[e2]) THEN DigitsEnd(s, e2) ELSE fracEnd
ExpEnd(s, fracEnd) ==
    IF fracEnd # 0 /\ fracEnd <= Len(s) /\ s[fracEnd] \in {"e", "E"}
    THEN ExpDigits(s, fracEnd, ExpSign(s, fracEnd + 1)) ELSE fracEnd
NumberLexeme(lexeme, isInt, end) ==
    IF isInt
    THEN JOk([t |-> "int", v |-> IF lexeme = Chars("-0") THEN Chars("0") ELSE lexeme], end)
    ELSE JOk([t |-> "float", v |-> lexeme], end)
NumberToken(s, i, intEnd, expEnd) ==
    IF intEnd = 0 THEN JFail
    ELSE NumberLexeme(Slice(s, i, expEnd - 1), expEnd = intEnd, expEnd)
NumberFrom(s, i, intEnd) == NumberToken(s, i, intEnd, ExpEnd(s, FracEnd(s, intEnd)))
ScanNumber(s, i) ==
    NumberFrom(s, i, IntEnd(s, IF i <= Len(s) /\ s[i] = "-" THEN i + 1 ELSE i))

RECURSIVE ParseValue(_, _), ParseMembers(_, _, _), ParseElements(_, _, _)
RECURSIVE ObjectFrom(_, _), ArrayFrom(_, _)
RECURSIVE MemberColon(_, _, _), MemberValue(_, _, _, _), MemberNext(_, _, _, _)
RECURSIVE MemberEnd(_, _, _), MemberKey(_, _, _), ElementNext(_, _, _), ElementEnd(_, _, _)

\* scan_once of json.scanner
StringValue(r) == IF r.ok THEN JOk(JStr(r.v), r.i) ELSE JFail
NumberOrConstant(s, i, n) ==
    IF n.ok THEN n
    ELSE IF MatchAt(s, Chars("NaN"), i) THEN JOk([t |-> "float", v |-> Chars("nan")], i + 3)
    ELSE IF MatchAt(s, Chars("Infinity"), i) THEN JOk([t |-> "float", v |-> Chars("inf")], i + 8)
    ELSE IF MatchAt(s, Chars("-Infinity"), i) THEN JOk([t |-> "float", v |-> Chars("-inf")], i + 9)
    ELSE JFail
ParseValue(s, i) ==
    IF i > Len(s) THEN JFail
    ELSE IF s[i] = "\"" THEN StringValue(ScanString(s, i + 1, <<>>))
    ELSE IF s[i] = "{" THEN ObjectFrom(s, SkipWs(s, i + 1))
    ELSE IF s[i] = "[" THEN ArrayFrom(s, SkipWs(s, i + 1))
    ELSE IF MatchAt(s, Chars("null"), i) THEN JOk(JNull, i + 4)
    ELSE IF MatchAt(s, Chars("true"), i) THEN JOk(JBool(TRUE), i + 4)
    ELSE IF MatchAt(s, Chars("false"), i) THEN JOk(JBool(FALSE), i + 5)
    ELSE NumberOrConstant(s, i, ScanNumber(s, i))

\* JSONObject of json.decoder: j is the first position after "{" that is
\* not whitespace.
ObjectFrom(s, j) ==
    IF j <= Len(s) /\ s[j] = "}" THEN JOk(JObj(<<>>), j + 1)
    ELSE IF j <= Len(s) /\ s[j] = "\"" THEN ParseMembers(s, j + 1, <<>>)
    ELSE JFail

\* The members of an object, from the position after the quote that opens
\* a key: the key k, the colon at c, the value val, the delimiter at e, the
\* quote of the next key at q.
ParseMembers(s, i, acc) == MemberColon(s, ScanString(s, i, <<>>), acc)
MemberColon(s, k, acc) ==
    IF ~k.ok THEN JFail ELSE MemberValue(s, k, SkipWs(s, k.i), acc)
MemberValue(s, k, c, acc) ==
    IF c > Len(s) \/ s[c] # ":" THEN JFail
    ELSE MemberNext(s, k, ParseValue(s, SkipWs(s, c + 1)), acc)
MemberNext(s, k, val, acc) ==
    IF ~val.ok THEN JFail
    ELSE MemberEnd(s, SkipWs(s, val.i), DictPut(acc, k.v, val.v))
MemberEnd(s, e, pairs) ==
    IF e > Len(s) THEN JFail
    ELSE IF s[e] = "}" THEN JOk(JObj(pairs), e + 1)
    ELSE IF s[e] # "," THEN JFail
    ELSE MemberKey(s, SkipWs(s, e + 1), pairs)
MemberKey(s, q, pairs) ==
    IF q > Len(s) \/ s[q] # "\"" THEN JFail
    ELSE ParseMembers(s, q + 1, pairs)

\* JSONArray of json.decoder: j is the first position after "[" that is
\* not whitespace; then the elements from the position of the next one.
ArrayFrom(s, j) ==
    IF j <= Len(s) /\ s[j] = "]" THEN JOk(JArr(<<>>), j + 1)
    ELSE ParseElements(s, j, <<>>)
ParseElements(s, i, acc) == ElementNext(s, ParseValue(s, i), acc)
ElementNext(s, val, acc) ==
    IF ~val.ok THEN JFail
    ELSE ElementEnd(s, SkipWs(s, val.i), Append(acc, val.v))
ElementEnd(s, e, elements) ==
    IF e > Len(s) THEN JFail
    ELSE IF s[e] = "]" THEN JOk(JArr(elements), e + 1)
    ELSE IF s[e] # "," THEN JFail
    ELSE ParseElements(s, SkipWs(s, e + 1), elements)

\* json.loads(s): [ok, v]; ok is FALSE where Python raises JSONDecodeError.
Decoded(s, r) ==
    IF r.ok /\ SkipWs(s, r.i) = Len(s) + 1 THEN [ok |-> TRUE, v |-> r.v]
    ELSE [ok |-> FALSE, v |-> JNull]
JsonLoads(s) == Decoded(s, ParseValue(s, SkipWs(s, 1)))

(***************************************************************************)
(* str(value) for a decoded JSON value, as in str(item.get("contest_id")). *)
(* The repr of a container quotes its strings with ' and does not escape.   *)
(***************************************************************************)
RECURSIVE PyRepr(_), PyReprItems(_, _, _)
PyRepr(val) ==
    CASE val.t = "str" -> <<"'">> \o val.v \o <<"'">>
      [] val.t = "null" -> Chars("None")
      [] val.t = "arr" -> <<"[">> \o PyReprItems(val.v, 1, FALSE) \o <<"]">>
      [] val.t = "obj" -> <<"{">> \o PyReprItems(val.v, 1, TRUE) \o <<"}">>
      [] OTHER -> val.v
PyReprItems(items, n, isDict) ==
    IF n > Len(items) THEN <<>>
    ELSE (IF n > 1 THEN Chars(", ") ELSE <<>>)
         \o (IF isDict THEN PyRepr(JStr(items[n][1])) \o Chars(": ") \o PyRepr(items[n][2])
             ELSE PyRepr(items[n]))
         \o PyReprItems(items, n + 1, isDict)
PyStr(val) == IF val.t = "str" THEN val.v ELSE PyRepr(val)

\* item.get(key, "") on a decoded object
ItemGet(pairs, key) == IF DictHas(pairs, key) THEN DictGet(pairs, key) ELSE JStr(<<>>)

(***************************************************************************)
(* EditorialContentParser._normalize_problem_id.  The result is            *)
(* [exc, v]: exc = "" and v the normalized id or None, or exc the          *)
(* exception raised.                                                       *)
(***************************************************************************)
IsAlnum(c) == IsAlpha(c) \/ IsDigit(c)
Returned(val) == [exc |-> "", v |-> val]
Raised(e) == [exc |-> e, v |-> None]

\* str.split(): the number of whitespace-delimited tokens, and the last one
NumTokens(s) == Cardinality({i \in 1..Len(s) : ~IsSpace(s[i]) /\ (i = 1 \/ IsSpace(s[i - 1]))})
RECURSIVE TokenStart(_, _)
TokenStart(s, j) == IF j >= 1 /\ ~IsSpace(s[j]) THEN TokenStart(s, j - 1) ELSE j + 1
LastToken(s) == LET e == RStripTo(s, Len(s)) IN Slice(s, TokenStart(s, e), e)

SetMax(S) == CHOOSE m \in S : \A n \in S : n <= m
SetMin(S) == CHOOSE m \in S : \A n \in S : m <= n

\* lines 520-528: first character is the letter
NormalizeFallback(p) ==
    IF Len(p) = 0 THEN Raised("IndexError")
    ELSE IF IsAlpha(p[1])
         THEN Returned(IF Len(p) > 1 /\ IsDigit(p[2]) THEN <<p[1], p[2]>> ELSE <<p[1]>>)
         ELSE Returned(None)

\* lines 503-518: letters at the end ("1900A")
NormalizeTrailing(p) ==
    IF Len(p) > 0 /\ IsAlpha(p[Len(p)]) THEN
        LET nonAlnum == {i \in 1..Len(p) : ~IsAlnum(p[i])} IN
        IF nonAlnum # {} THEN
            LET result == Slice(p, SetMax(nonAlnum) + 1, Len(p)) IN
            IF result # <<>> /\ IsAlpha(result[1]) THEN Returned(result) ELSE NormalizeFallback(p)
        ELSE Returned(Slice(p, SetMin({i \in 1..Len(p) : IsAlpha(p[i])}), Len(p)))
    ELSE NormalizeFallback(p)

\* lines 490-501: "Problem A" or its Cyrillic form, then letter + digit
NormalizePhrase(p) ==
    LET last_part == LastToken(p)
        phrase == /\ \/ MatchAt(p, Chars("PROBLEM "), 1)
                     \/ MatchAt(p, <<"CYR_ZE", "CYR_A", "CYR_DE", "CYR_A", "CYR_CHE", "CYR_A", " ">>, 1)
                  /\ NumTokens(p) >= 2
                  /\ Len(last_part) <= 2
                  /\ IsAlpha(last_part[1])
    IN  IF phrase THEN Returned(last_part)
        ELSE IF Len(p) = 2 /\ IsAlpha(p[1]) /\ IsDigit(p[2]) THEN Returned(p)
        ELSE NormalizeTrailing(p)

_normalize_problem_id(val) ==
    IF val.t # "str" \/ val.v = <<>> THEN Returned(None)
    ELSE LET p == Upper(Strip(val.v)) IN
         IF Len(p) = 1 /\ IsAlpha(p[1]) THEN Returned(p)
         ELSE NormalizePhrase(p)

(***************************************************************************)
(* EditorialContentParser._attempt_json_repair: the repaired text, or None *)
(***************************************************************************)
Repeat(c, n) == [i \in 1..n |-> c]

\* lines 557-565: quotes not preceded by an escaping backslash
\* One pass of the loop 'for char in repaired' at position st.i.
\* st = [i, escaped, quote_count]
RepairQuoteStep(s, st) ==
    IF s[st.i] = "\\" /\ ~st.escaped THEN [st EXCEPT !.i = st.i + 1, !.escaped = TRUE]
    ELSE [i |-> st.i + 1,
          escaped |-> FALSE,
          quote_count |-> IF s[st.i] = "\"" /\ ~st.escaped THEN st.quote_count + 1
                          ELSE st.quote_count]

\* the passes of the loop at positions lo..hi: those of the first half of
\* the range, then those of the second half
RECURSIVE RepairQuoteRun(_, _, _, _)
RepairQuoteRun(s, lo, hi, st) ==
    IF st.i < lo \/ st.i > hi THEN st
    ELSE IF lo = hi THEN RepairQuoteStep(s, st)
    ELSE LET half == RepairQuoteRun(s, lo, (lo + hi) \div 2, st) IN
         IF half.i > hi THEN half ELSE RepairQuoteRun(s, (lo + hi) \div 2 + 1, hi, half)

\* every quote counted, an escaped one too
CountEveryQuote(s) == Count(s, "\"")

RepairQuoteCount(s) ==
    RepairQuoteRun(s, 1, Len(s), [i |-> 1, escaped |-> FALSE, quote_count |-> 0]).quote_count

RepairCandidate(json_str) ==
    LET stripped == Strip(json_str)
        open_braces == Count(stripped, "{") - Count(stripped, "}")
        open_brackets == Count(stripped, "[") - Count(stripped, "]")
        quote_count == RepairQuoteCount(stripped)
        quoted == IF quote_count % 2 = 1 THEN Append(stripped, "\"") ELSE stripped
        trimmed == RStrip(quoted)
        uncomma == IF Len(trimmed) > 0 /\ trimmed[Len(trimmed)] = ","
                   THEN RStrip(Slice(trimmed, 1, Len(trimmed) - 1)) ELSE trimmed
    IN  uncomma \o Repeat("]", open_brackets) \o Repeat("}", open_braces)

\* the candidate returned without the json.loads of line 584
RepairUnchecked(json_str) == RepairCandidate(json_str)

_attempt_json_repair(json_str) ==
    LET repaired == RepairCandidate(json_str) IN
    IF JsonLoads(repaired).ok THEN repaired ELSE None

(***************************************************************************)
(* EditorialContentParser._sanitize_json_string                            *)
(***************************************************************************)
RECURSIVE BackslashesBefore(_, _)
BackslashesBefore(s, j) == IF j >= 1 /\ s[j] = "\\" THEN 1 + BackslashesBefore(s, j - 1) ELSE 0

\* the escape letters without the solidus
SanitizeKeptNoSolidus == {"\"", "n", "t", "r", "b", "f"}

SanitizeKept == {"\"", "n", "t", "r", "b", "f", "/"}

\* One pass of the while loop at position st.i.  st = [i, in_string, result]
SanitizeStep(s, st) ==
    LET i == st.i
        char == s[i]
        one(text) == [st EXCEPT !.i = i + 1, !.result = st.result \o text]
        two(text) == [st EXCEPT !.i = i + 2, !.result = st.result \o text]
    IN  IF char = "\"" THEN
            [i |-> i + 1,
             in_string |-> IF BackslashesBefore(s, i - 1) % 2 = 0 THEN ~st.in_string
                           ELSE st.in_string,
             result |-> Append(st.result, char)]
        ELSE IF ~st.in_string THEN one(<<char>>)
        ELSE IF char = "\\" THEN
            IF i + 1 <= Len(s) /\ s[i + 1] = "\\" THEN two(<<"\\", "\\">>)
            ELSE IF i + 1 <= Len(s) /\ s[i + 1] \in SanitizeKept THEN two(<<"\\", s[i + 1]>>)
            ELSE one(<<"\\", "\\">>)
        ELSE IF char = "\n" THEN one(<<"\\", "n">>)
        ELSE IF char = "\t" THEN one(<<"\\", "t">>)
        ELSE IF char = "\r" THEN one(<<"\\", "r">>)
        ELSE IF char = Backspace THEN one(<<"\\", "b">>)
        ELSE IF char = "\f" THEN one(<<"\\", "f">>)
        ELSE one(<<char>>)

\* the passes of the while loop at positions lo..hi: those of the first
\* half of the range, then those of the second half
RECURSIVE SanitizeRun(_, _, _, _)
SanitizeRun(s, lo, hi, st) ==
    IF st.i < lo \/ st.i > hi THEN st
    ELSE IF lo = hi THEN SanitizeStep(s, st)
    ELSE LET half == SanitizeRun(s, lo, (lo + hi) \div 2, st) IN
         IF half.i > hi THEN half ELSE SanitizeRun(s, (lo + hi) \div 2 + 1, hi, half)

SanitizeLoop(s) ==
    SanitizeRun(s, 1, Len(s), [i |-> 1, in_string |-> FALSE, result |-> <<>>]).result

\* the loop without the fast path of lines 605-610
SanitizeAlways(json_str) == SanitizeLoop(json_str)

_sanitize_json_string(json_str) ==
    IF JsonLoads(json_str).ok THEN json_str ELSE SanitizeLoop(json_str)

(***************************************************************************)
(* EditorialContentParser._find_matching_brace: the position of the        *)
(* closing brace, 0 when there is none (Python: -1).  Positions are        *)
(* 1-based.                                                                *)
(***************************************************************************)
\* One pass of the for loop at position st.i.  st = [i, count, in_string,
\* escape, found]; found is the position returned, 0 while the loop runs.
BraceStep(text, st) ==
    LET char == text[st.i]
        next == [st EXCEPT !.i = st.i + 1]
    IN  IF st.escape THEN [next EXCEPT !.escape = FALSE]
        ELSE IF char = "\\" THEN [next EXCEPT !.escape = TRUE]
        ELSE IF char = "\"" THEN [next EXCEPT !.in_string = ~st.in_string]
        ELSE IF st.in_string THEN next
        ELSE IF char = "{" THEN [next EXCEPT !.count = st.count + 1]
        ELSE IF char = "}" THEN
            IF st.count - 1 = 0 THEN [st EXCEPT !.i = Len(text) + 1, !.count = 0, !.found = st.i]
            ELSE [next EXCEPT !.count = st.count - 1]
        ELSE next

\* the passes of the for loop at positions lo..hi: those of the first half
\* of the range, then those of the second half
RECURSIVE BraceRun(_, _, _, _)
BraceRun(text, lo, hi, st) ==
    IF st.i < lo \/ st.i > hi THEN st
    ELSE IF lo = hi THEN BraceStep(text, st)
    ELSE LET half == BraceRun(text, lo, (lo + hi) \div 2, st) IN
         IF half.i > hi THEN half ELSE BraceRun(text, (lo + hi) \div 2 + 1, hi, half)

_find_matching_brace(text, start) ==
    BraceRun(text, start, Len(text),
             [i |-> start, count |-> 0, in_string |-> FALSE, escape |-> FALSE, found |-> 0]).found

(***************************************************************************)
(* EditorialContentParser._extract_text_between_markers                    *)
(* ExtractFromMarker leaves out line 844; ExtractEndAnywhere looks for the *)
(* end marker from the top of the text.                                    *)
(***************************************************************************)
ExtractFromMarker(text, start_marker, end_marker) ==
    LET found == Find(text, start_marker)
        end_pos == FindFrom(text, end_marker, found)
    IN  IF found = 0 THEN <<>>
        ELSE IF end_marker # <<>> /\ end_pos # 0
             THEN Strip(Slice(text, found, end_pos - 1))
             ELSE Strip(Slice(text, found, Len(text)))
ExtractEndAnywhere(text, start_marker, end_marker) ==
    LET found == Find(text, start_marker)
        start_pos == found + Len(start_marker)
        end_pos == Find(text, end_marker)
    IN  IF found = 0 THEN <<>>
        ELSE IF end_marker # <<>> /\ end_pos # 0
             THEN Strip(Slice(text, start_pos, end_pos - 1))
             ELSE Strip(Slice(text, start_pos, Len(text)))
_extract_text_between_markers(text, start_marker, end_marker) ==
    LET found == Find(text, start_marker)
        start_pos == found + Len(start_marker)
        end_pos == FindFrom(text, end_marker, start_pos)
    IN  IF found = 0 THEN <<>>
        ELSE IF end_marker # <<>> /\ end_pos # 0
             THEN Strip(Slice(text, start_pos, end_pos - 1))
             ELSE Strip(Slice(text, start_pos, Len(text)))


(***************************************************************************)
(* The Normalizer.  A SegmentationResult is a Python dict, written as the  *)
(* sequence of its <<key, text>> pairs in insertion order, where key is    *)
(* <<contest_id, problem_id>>.  Each operator returns [exc, v]: the dict,  *)
(* or the exception the code raises.                                        *)
(***************************************************************************)
\* Python's truth value of a str | None; TruthyNotNone is 'is not None'.
TruthyNotNone(text) == text # None
Truthy(text) == text # None /\ text # <<>>

\* EditorialContentParser._parse_new_format, entries n.. of problems
RECURSIVE NewFormatLoop(_, _, _, _)
NewFormatLoop(problems, n, editorial_text, clean_result) ==
    IF n > Len(problems) THEN Returned(clean_result)
    ELSE IF problems[n].t # "obj" THEN NewFormatLoop(problems, n + 1, editorial_text, clean_result)
    ELSE
        LET item == problems[n].v
            contest_id == Strip(PyStr(ItemGet(item, Chars("contest_id"))))
            problem_id == _normalize_problem_id(ItemGet(item, Chars("problem_id")))
            start_marker == ItemGet(item, Chars("start_marker"))
            end_marker == ItemGet(item, Chars("end_marker"))
            inline == ItemGet(item, Chars("analysis"))
        IN  IF problem_id.exc # "" THEN problem_id
            ELSE IF DictHas(item, Chars("start_marker")) /\ Truthy(editorial_text) THEN
                IF start_marker.t # "str" \/ end_marker.t # "str" THEN Raised("AttributeError")
                ELSE IF Truthy(contest_id) /\ Truthy(problem_id.v) /\ Truthy(Strip(start_marker.v)) THEN
                    LET analysis == _extract_text_between_markers(
                                        editorial_text, Strip(start_marker.v), Strip(end_marker.v))
                    IN  NewFormatLoop(problems, n + 1, editorial_text,
                            IF Truthy(analysis)
                            THEN DictPut(clean_result, <<contest_id, problem_id.v>>, analysis)
                            ELSE clean_result)
                ELSE NewFormatLoop(problems, n + 1, editorial_text, clean_result)
            ELSE
                IF inline.t # "str" THEN Raised("AttributeError")
                ELSE NewFormatLoop(problems, n + 1, editorial_text,
                        IF Truthy(contest_id) /\ Truthy(problem_id.v) /\ Truthy(Strip(inline.v))
                        THEN DictPut(clean_result, <<contest_id, problem_id.v>>, Strip(inline.v))
                        ELSE clean_result)

_parse_new_format(problems, editorial_text) == NewFormatLoop(problems, 1, editorial_text, <<>>)

\* EditorialContentParser._parse_old_format, pairs n.. of the object
RECURSIVE OldFormatLoop(_, _, _)
OldFormatLoop(pairs, n, clean_result) ==
    IF n > Len(pairs) THEN Returned(clean_result)
    ELSE IF pairs[n][2].t = "str" /\ Truthy(Strip(pairs[n][2].v)) THEN
        LET problem_id == _normalize_problem_id(JStr(pairs[n][1])) IN
        IF problem_id.exc # "" THEN problem_id
        ELSE OldFormatLoop(pairs, n + 1,
                IF Truthy(problem_id.v)
                THEN DictPut(clean_result, <<None, problem_id.v>>, Strip(pairs[n][2].v))
                ELSE clean_result)
    ELSE OldFormatLoop(pairs, n + 1, clean_result)

_parse_old_format(result, primary_contest_id) == OldFormatLoop(result, 1, <<>>)

\* EditorialContentParser._process_parsed_json.  For a value that is no
\* dict, '"problems" in result' and 'result["problems"]' or 'result.items()'
\* raise as Python does.
_process_parsed_json(result, primary_contest_id, editorial_text) ==
    CASE result.t = "obj" ->
            IF DictHas(result.v, Chars("problems")) /\ DictGet(result.v, Chars("problems")).t = "arr"
            THEN _parse_new_format(DictGet(result.v, Chars("problems")).v, editorial_text)
            ELSE _parse_old_format(result.v, primary_contest_id)
      [] result.t = "str" ->
            IF Contains(result.v, Chars("problems")) THEN Raised("TypeError") ELSE Raised("AttributeError")
      [] result.t = "arr" ->
            IF \E n \in 1..Len(result.v) : result.v[n].t = "str" /\ result.v[n].v = Chars("problems")
            THEN Raised("TypeError") ELSE Raised("AttributeError")
      [] OTHER -> Raised("TypeError")

(***************************************************************************)
(* EditorialContentParser._parse_llm_response.  The outcome is a record    *)
(*   exc          "" on return, else the exception raised                  *)
(*   v            the dict returned                                        *)
(*   contest_id, llm_response   the fields of the LLMSegmentationError     *)
(*   debug_file   <<name, content>> of the file lines 757-774 write, or    *)
(*                None when that block is not reached                      *)
(*   tried        the recovery strategies applied, in order                *)
(***************************************************************************)
\* The backtick cannot be written in a TLA+ string: it is the character
\* "BACKTICK" of the model.
Backtick == "BACKTICK"
Fence == <<Backtick, Backtick, Backtick>>
FenceJson == Fence \o Chars("json")

\* re.sub(r"[^a-zA-Z0-9_-]", "_", primary_contest_id)
SafeContestId(contest_id) ==
    [i \in 1..Len(contest_id) |->
        IF IsAlnum(contest_id[i]) \/ contest_id[i] \in {"_", "-"} THEN contest_id[i] ELSE "_"]

\* lines 764-774: the file the handler writes; DebugFileShared names it
\* without the contest.
DebugFileShared(response, primary_contest_id, json_content) ==
    << Chars("failed_llm_response.txt"),
       Chars("=== Original Response ===\n") \o response
         \o Chars("\n\n=== Attempted JSON Content ===\n")
         \o (IF json_content = None THEN Chars("N/A") ELSE json_content) >>
DebugFile(response, primary_contest_id, json_content) ==
    << Chars("failed_llm_response_") \o SafeContestId(primary_contest_id) \o Chars(".txt"),
       Chars("=== Original Response ===\n") \o response
         \o Chars("\n\n=== Attempted JSON Content ===\n")
         \o (IF json_content = None THEN Chars("N/A") ELSE json_content) >>

\* lines 752-778: the handler of JSONDecodeError and ValueError
ParseFailure(response, primary_contest_id, json_content, tried) ==
    [exc |-> "LLMSegmentationError", v |-> <<>>,
     contest_id |-> primary_contest_id, llm_response |-> response,
     debug_file |-> DebugFile(response, primary_contest_id, json_content),
     tried |-> tried]

\* a parsed document handed to the Normalizer
Normalized(processed, tried) ==
    [exc |-> processed.exc, v |-> IF processed.exc = "" THEN processed.v ELSE <<>>,
     contest_id |-> None, llm_response |-> None, debug_file |-> None, tried |-> tried]

\* lines 720-750: the first "{", its matching brace, repair
\* lines 720-731: json_content before it is sanitized, None when line 722
\* raises.  BracedContentToEnd always takes the fallback of line 729.
BracedContentToEnd(response) ==
    IF Find(response, <<"{">>) = 0 THEN None
    ELSE Strip(Slice(response, Find(response, <<"{">>), Len(response)))
BracedContent(response) ==
    LET json_start == Find(response, <<"{">>)
        json_end == _find_matching_brace(response, json_start)
    IN  IF json_start = 0 THEN None
        ELSE IF json_end = 0 THEN Strip(Slice(response, json_start, Len(response)))
        ELSE Strip(Slice(response, json_start, json_end))

ParseBraced(response, primary_contest_id, editorial_text) ==
    LET json_start == Find(response, <<"{">>)
        json_content == _sanitize_json_string(BracedContent(response))
        parsed == JsonLoads(json_content)
        repaired == _attempt_json_repair(json_content)
    IN  IF json_start = 0 THEN ParseFailure(response, primary_contest_id, None, <<"brace">>)
        ELSE IF parsed.ok
             THEN Normalized(_process_parsed_json(parsed.v, primary_contest_id, editorial_text),
                             <<"brace">>)
        ELSE IF repaired # None
             THEN Normalized(_process_parsed_json(JsonLoads(repaired).v, primary_contest_id,
                                                  editorial_text), <<"brace", "repair">>)
        ELSE ParseFailure(response, primary_contest_id, json_content, <<"brace", "repair">>)

\* ParseOnlyExpected drops from the result the entries whose key is not
\* in expected_problems.
OnlyExpected(out, expected_problems) ==
    IF out.exc # "" \/ expected_problems = None THEN out
    ELSE [out EXCEPT !.v = SelectSeq(out.v,
              LAMBDA e : \E n \in 1..Len(expected_problems) : expected_problems[n] = e[1])]
ParseOnlyExpected(response, primary_contest_id, expected_problems, editorial_text) ==
    LET fence_at == Find(response, FenceJson)
        json_start == fence_at + 7
        json_end == FindFrom(response, Fence, json_start)
        json_content == _sanitize_json_string(Strip(Slice(response, json_start, json_end - 1)))
        parsed == JsonLoads(json_content)
    IN  IF fence_at # 0 /\ json_end # 0 THEN
            IF parsed.ok
            THEN OnlyExpected(Normalized(_process_parsed_json(parsed.v, primary_contest_id,
                                                              editorial_text), <<"fenced">>),
                              expected_problems)
            ELSE ParseFailure(response, primary_contest_id, json_content, <<"fenced">>)
        ELSE OnlyExpected(ParseBraced(response, primary_contest_id, editorial_text),
                          expected_problems)

_parse_llm_response(response, primary_contest_id, expected_problems, editorial_text) ==
    LET fence_at == Find(response, FenceJson)
        json_start == fence_at + 7
        json_end == FindFrom(response, Fence, json_start)
        json_content == _sanitize_json_string(Strip(Slice(response, json_start, json_end - 1)))
        parsed == JsonLoads(json_content)
    IN  IF fence_at # 0 /\ json_end # 0 THEN
            IF parsed.ok
            THEN Normalized(_process_parsed_json(parsed.v, primary_contest_id, editorial_text),
                            <<"fenced">>)
            ELSE ParseFailure(response, primary_contest_id, json_content, <<"fenced">>)
        ELSE ParseBraced(response, primary_contest_id, editorial_text)


(***************************************************************************)
(* EditorialContentParser._segment_by_problems and                         *)
(* _ask_llm_for_segmentation.  The provider call is the one suspension     *)
(* point: the code before it and the code after it are one step each.      *)
(***************************************************************************)

\* The least length _segment_by_problems accepts (line 358).
MinSegmentLength == 50

\* The character budget of the prompt.  The source sets max_chars = 300000
\* (line 395); the model's articles are about a hundred characters long, so
\* the budget is scaled down to lie between the length of Article and the
\* length of LongArticle.
max_chars == 80

TruncationNotice == Chars("\n\n[CONTENT TRUNCATED DUE TO LENGTH]")

\* An exception of errors.py: LLMSegmentationError(contest_id, llm_response)
LLMSegmentationError(cid, llm_response) ==
    [state |-> "raised", exc |-> "LLMSegmentationError", v |-> <<>>,
     contest_id |-> cid, llm_response |-> llm_response]
SegmentReturned(result) ==
    [state |-> "returned", exc |-> "", v |-> result, contest_id |-> None, llm_response |-> None]
NotSegmented ==
    [state |-> "none", exc |-> "", v |-> <<>>, contest_id |-> None, llm_response |-> None]

\* lines 355-359: the checks made before the provider is called; the
\* error raised, or NotSegmented when the checks pass.
\* SegmentPreconditionNoLength leaves out the check of line 358.
SegmentPreconditionNoLength(llm_client, full_text, cid) ==
    IF llm_client = None
    THEN LLMSegmentationError(cid, Chars("No LLM client available"))
    ELSE NotSegmented
SegmentPrecondition(llm_client, full_text, cid) ==
    IF llm_client = None
    THEN LLMSegmentationError(cid, Chars("No LLM client available"))
    ELSE IF ~Truthy(full_text) \/ Len(Strip(full_text)) < MinSegmentLength
    THEN LLMSegmentationError(cid, Chars("Content too short for segmentation"))
    ELSE NotSegmented

\* lines 392-400: the text the prompt embeds, and the text handed to
\* _parse_llm_response for extraction
\* TruncatedTextFromBudget also cuts a text of exactly max_chars characters.
TruncatedTextFromBudget(editorial_text) ==
    IF Len(editorial_text) >= max_chars
    THEN Slice(editorial_text, 1, max_chars) \o TruncationNotice
    ELSE editorial_text
TruncatedText(editorial_text) ==
    IF Len(editorial_text) > max_chars
    THEN Slice(editorial_text, 1, max_chars) \o TruncationNotice
    ELSE editorial_text

\* _format_expected_problems
RECURSIVE JoinExpected(_, _)
JoinExpected(expected_problems, n) ==
    IF n > Len(expected_problems) THEN <<>>
    ELSE (IF n > 1 THEN Chars(", ") ELSE <<>>)
         \o expected_problems[n][1] \o <<"/">> \o expected_problems[n][2]
         \o JoinExpected(expected_problems, n + 1)
_format_expected_problems(expected_problems) ==
    IF expected_problems = None \/ expected_problems = <<>>
    THEN Chars("Unknown (parse all problems found)")
    ELSE JoinExpected(expected_problems, 1)

\* lines 460-465: the provider call of _ask_llm_for_segmentation.
\* LlmRequestWarm asks with a temperature above 0.
LlmRequestWarm(editorial_text, cid, expected_problems) ==
    [contest_id |-> cid,
     expected |-> _format_expected_problems(expected_problems),
     editorial_text |-> TruncatedText(editorial_text),
     temperature |-> 1,
     max_tokens |-> 4000]
LlmRequest(editorial_text, cid, expected_problems) ==
    [contest_id |-> cid,
     expected |-> _format_expected_problems(expected_problems),
     editorial_text |-> TruncatedText(editorial_text),
     temperature |-> 0,
     max_tokens |-> 4000]

\* lines 361-374: what _segment_by_problems makes of the outcome of
\* _ask_llm_for_segmentation.  asked.exc is "" when it returned asked.v.
\* The error of line 365 is raised inside the try and caught in line 372.
\* SegmentOutcomeUnwrapped is the method without the handler of lines
\* 372-374.
SegmentOutcomeUnwrapped(asked, cid) ==
    CASE asked.exc = "" /\ asked.v # <<>> -> SegmentReturned(asked.v)
      [] asked.exc = "" /\ asked.v = <<>> ->
            LLMSegmentationError(cid, Chars("Invalid LLM response format: {}"))
      [] asked.exc = "LLMError" -> LLMSegmentationError(cid, None)
      [] OTHER -> [state |-> "raised", exc |-> asked.exc, v |-> <<>>,
                   contest_id |-> asked.contest_id, llm_response |-> asked.llm_response]
\* the method without the test of line 364
SegmentOutcomeAllowEmpty(asked, cid) ==
    CASE asked.exc = "" -> SegmentReturned(asked.v)
      [] OTHER -> LLMSegmentationError(cid, None)
SegmentOutcome(asked, cid) ==
    CASE asked.exc = "" /\ asked.v # <<>> -> SegmentReturned(asked.v)
      [] asked.exc = "" /\ asked.v = <<>> -> LLMSegmentationError(cid, None)
      [] asked.exc = "LLMError" -> LLMSegmentationError(cid, None)
      [] OTHER -> LLMSegmentationError(cid, None)

(***************************************************************************)
(* ContestService.get_contest, lines 104-122: the contest-aware matcher.   *)
(***************************************************************************)

\* parse_editorial_content lines 92-95: the Editorial objects of a result
Editorials(problem_solutions) ==
    [n \in 1..Len(problem_solutions) |->
        [contest_id |-> problem_solutions[n][1][1],
         problem_id |-> problem_solutions[n][1][2],
         analysis_text |-> problem_solutions[n][2]]]

\* lines 106-118: one editorial of the loop; m = [explanation_map,
\* other_contest_count].  MatchStepAnyContest is the matcher by letter
\* alone.
MatchStepAnyContest(edit, cid, m) ==
    [m EXCEPT !.explanation_map =
        DictPut(m.explanation_map, Upper(edit.problem_id), edit.analysis_text)]
\* MatchStepSentinelMatches takes an editorial without a contest for one
\* of the requested contest.
MatchStepSentinelMatches(edit, cid, m) ==
    IF edit.contest_id = cid \/ edit.contest_id = None
    THEN [m EXCEPT !.explanation_map =
              DictPut(m.explanation_map, Upper(edit.problem_id), edit.analysis_text)]
    ELSE [m EXCEPT !.other_contest_count = m.other_contest_count + 1]
MatchStep(edit, cid, m) ==
    IF edit.contest_id = cid
    THEN [m EXCEPT !.explanation_map =
              DictPut(m.explanation_map, Upper(edit.problem_id), edit.analysis_text)]
    ELSE [m EXCEPT !.other_contest_count = m.other_contest_count + 1]

\* lines 105-118: m after the loop has run on editorials n..
RECURSIVE MatchLoop(_, _, _, _)
MatchLoop(editorials, n, cid, m) ==
    IF n > Len(editorials) THEN m
    ELSE MatchLoop(editorials, n + 1, cid, MatchStep(editorials[n], cid, m))

Matched(editorials, cid) ==
    MatchLoop(editorials, 1, cid, [explanation_map |-> <<>>, other_contest_count |-> 0])

\* lines 121-122.  WithExplanationsCaseSensitive looks the letter up as
\* the standings spell it.
WithExplanationsCaseSensitive(problems, explanation_map) ==
    [n \in 1..Len(problems) |->
        [problems[n] EXCEPT !.explanation =
            IF DictHas(explanation_map, problems[n].id)
            THEN DictGet(explanation_map, problems[n].id)
            ELSE None]]
\* WithExplanationsFirstOnly leaves the loop after the first problem.
WithExplanationsFirstOnly(problems, explanation_map) ==
    [n \in 1..Len(problems) |->
        [problems[n] EXCEPT !.explanation =
            IF n = 1 /\ DictHas(explanation_map, Upper(problems[n].id))
            THEN DictGet(explanation_map, Upper(problems[n].id))
            ELSE None]]
WithExplanations(problems, explanation_map) ==
    [n \in 1..Len(problems) |->
        [problems[n] EXCEPT !.explanation =
            IF DictHas(explanation_map, Upper(problems[n].id))
            THEN DictGet(explanation_map, Upper(problems[n].id))
            ELSE None]]

(***************************************************************************)
(* EditorialContentParser.parse_editorial_content, lines 61-89: the URLs   *)
(* are fetched in order and the pages that loaded are combined.  A page is *)
(* None when http_client.get raised, else the text _extract_blog_content   *)
(* returns for it.                                                         *)
(***************************************************************************)
MinContentLength == 100

\* _fetch_editorial_content, lines 113-133
_fetch_editorial_content(page) ==
    IF page = None THEN Raised("EditorialContentFetchError")
    ELSE IF ~Truthy(page) \/ Len(Strip(page)) < MinContentLength
    THEN Raised("EditorialContentParseError")
    ELSE Returned(page)

\* lines 68-76: all_content after the loop has run on pages n..
\* FetchLoopUntilFailure stops at the first page that fails.
RECURSIVE FetchLoopUntilFailure(_, _, _)
FetchLoopUntilFailure(pages, n, all_content) ==
    IF n > Len(pages) \/ _fetch_editorial_content(pages[n]).exc # "" THEN all_content
    ELSE FetchLoopUntilFailure(pages, n + 1, Append(all_content, pages[n]))
RECURSIVE FetchLoop(_, _, _)
FetchLoop(pages, n, all_content) ==
    IF n > Len(pages) THEN all_content
    ELSE FetchLoop(pages, n + 1,
                   IF _fetch_editorial_content(pages[n]).exc = ""
                   THEN Append(all_content, pages[n])
                   ELSE all_content)

\* _combine_editorial_content, lines 328-336; the parts from the i-th on.
\* The lists of the model have fewer than ten pages, so str(i) is one digit.
RECURSIVE CombineParts(_, _)
CombineParts(content_list, i) ==
    IF i > Len(content_list) THEN <<>>
    ELSE (IF i > 1 THEN Chars("\n\n") ELSE <<>>)
         \o Chars("=== EDITORIAL SOURCE ") \o <<DigitChars[i + 1]>> \o Chars(" ===\n\n")
         \o content_list[i] \o CombineParts(content_list, i + 1)
_combine_editorial_content(content_list) ==
    IF Len(content_list) = 1 THEN content_list[1] ELSE CombineParts(content_list, 1)

\* lines 61-86: the error raised, or the text _segment_by_problems is
\* called with
parse_editorial_content(pages) ==
    IF pages = <<>> THEN Raised("EditorialNotFoundError")
    ELSE IF FetchLoop(pages, 1, <<>>) = <<>> THEN Raised("EditorialContentFetchError")
    ELSE Returned(_combine_editorial_content(FetchLoop(pages, 1, <<>>)))

(***************************************************************************)
(* The requests and the provider's answers.                                *)
(***************************************************************************)
ContestIds == {Chars("1900"), Chars("1901")}

Article == Chars("Problem A: sort the array. Problem B: use dp \\leq n. The end.")
ShortArticle == Chars("Problem A: sort the array. Problem B: use dp.")
PaddedArticle == Chars("   Problem A: sort the array. Problem B: use dp.   ")
LongArticle ==
    Chars("Problem A: sort the array. Problem B: use dp \\leq n and then take the best of all sums.")
Articles == {Article, ShortArticle, PaddedArticle, LongArticle}

\* the problem indices contest.standings lists
ProblemLists == { <<Chars("a"), Chars("B"), Chars("C1")>> }

ResponseMarkers ==
    Chars("{\"problems\":[{\"contest_id\":\"1900\",\"problem_id\":\"A\",\"start_marker\":\"Problem A:\",\"end_marker\":\"Problem B:\"},{\"contest_id\":\"1900\",\"problem_id\":\"b\",\"start_marker\":\"Problem B:\",\"end_marker\":\"\"}]}")
ResponseTwoDivisions ==
    Chars("{\"problems\":[{\"contest_id\":\"1900\",\"problem_id\":\"A\",\"start_marker\":\"Problem A:\",\"end_marker\":\"Problem B:\"},{\"contest_id\":\"1901\",\"problem_id\":\"A\",\"start_marker\":\"Problem B:\",\"end_marker\":\"\"}]}")
ResponseFencedLatex ==
    Fence \o Chars("json\n{\"problems\":[{\"contest_id\":\"1900\",\"problem_id\":\"B\",\"start_marker\":\"dp \\leq\",\"end_marker\":\"\"}]}\n") \o Fence
ResponseFencedNote ==
    Fence \o Chars("json\n{\"problems\":[{\"contest_id\":\"1900\",\"problem_id\":\"A\",\"start_marker\":\"Problem A:\",\"end_marker\":\"\"}]}\nDone.\n") \o Fence
ResponseFencedList == Fence \o Chars("json\n[1,2]\n") \o Fence
ResponseTruncated ==
    Chars("{\"problems\":[{\"contest_id\":\"1900\",\"problem_id\":\"A\",\"start_marker\":\"Problem A:\",\"end_marker\":\"Problem B:\"}")
ResponseNoJson == Chars("no json here at all")
ResponseBroken == Chars("{broken json {{{")
ResponseLegacy == Chars("{\"A\":\"Sort it.\",\"b\":\" Use dp. \"}")
ResponseInline ==
    Chars("{\"problems\":[{\"contest_id\":\"1900\",\"problem_id\":\"A\",\"analysis\":\"Sort it.\"},{\"contest_id\":\"1900\",\"problem_id\":\"B\",\"analysis\":\" \"}]}")
ResponseNullMarker ==
    Chars("{\"problems\":[{\"contest_id\":\"1900\",\"problem_id\":\"A\",\"start_marker\":null,\"end_marker\":\"\"}]}")
ResponseNowhere ==
    Chars("{\"problems\":[{\"contest_id\":\"1900\",\"problem_id\":\"A\",\"start_marker\":\"Problem Z:\",\"end_marker\":\"\"}]}")

Responses ==
    {ResponseMarkers, ResponseTwoDivisions, ResponseFencedLatex, ResponseFencedNote,
     ResponseFencedList, ResponseTruncated, ResponseNoJson, ResponseBroken, ResponseLegacy,
     ResponseInline, ResponseNullMarker, ResponseNowhere}

\* how many times get_contest is invoked on one parser
MaxInvocations == 2

(***************************************************************************)
(* The state.                                                              *)
(***************************************************************************)
VARIABLES
    parser,               \* the fields of EditorialContentParser: http_client, llm_client
    files,                \* ~/.cache/codeforces-editorial: the dict name -> content
    pc,                   \* "idle", "awaiting_llm" (in llm_client.complete), "done"
    invocations,          \* get_contest invocations started
    contest_id,           \* the contest get_contest was asked for
    full_text,            \* the combined article handed to _segment_by_problems
    contest_problems,     \* the ContestProblem list of get_contest
    llm_requests,         \* the provider calls of this invocation, in order
    response,             \* what the provider returned, None before and on LLMError
    parsed,               \* the outcome of _parse_llm_response
    segment,              \* the outcome of _segment_by_problems
    matched,              \* the matcher (lines 104-129) has run
    other_contest_count,  \* its count of entries of other contests
    call                  \* the last direct call of a leaf method: [op, args, result]

vars == <<parser, files, pc, invocations, contest_id, full_text, contest_problems,
          llm_requests, response, parsed, segment, matched, other_contest_count, call>>

\* call is <<method, arguments, result>>; no method has been called yet
NoCall == <<"none", <<>>, None>>

NotParsed ==
    [exc |-> "not called", v |-> <<>>, contest_id |-> None, llm_response |-> None,
     debug_file |-> None, tried |-> <<>>]

\* _ask_llm_for_segmentation left by the LLMError of llm_client.complete
ProviderError ==
    [exc |-> "LLMError", v |-> <<>>, contest_id |-> None, llm_response |-> None,
     debug_file |-> None, tried |-> <<>>]

\* the ContestProblem objects _fetch_problem_details builds
ContestProblems(cid, ids) ==
    [n \in 1..Len(ids) |-> [contest_id |-> cid, id |-> ids[n], explanation |-> None]]

\* lines 95-97 of get_contest
ExpectedProblems(problems) ==
    [n \in 1..Len(problems) |-> <<problems[n].contest_id, Upper(problems[n].id)>>]

Init ==
    /\ parser \in {[http_client |-> <<"http_client">>, llm_client |-> llm] : llm \in {<<"llm_client">>, None}}
    /\ files = <<>>
    /\ pc = "idle"
    /\ invocations = 0
    /\ contest_id = None
    /\ full_text = None
    /\ contest_problems = <<>>
    /\ llm_requests = <<>>
    /\ response = None
    /\ parsed = NotParsed
    /\ segment = NotSegmented
    /\ matched = FALSE
    /\ other_contest_count = 0
    /\ call = NoCall

\* get_contest up to the provider call: lines 33-102 of contest.py, then
\* _segment_by_problems lines 355-362 and _ask_llm_for_segmentation up to
\* line 460.  A failed check is caught in line 131 and get_contest returns.
GetContest(cid, ids, text) ==
    LET problems == ContestProblems(cid, ids)
        failed == SegmentPrecondition(parser.llm_client, text, cid)
    IN  /\ pc \in {"idle", "done"}
        /\ invocations < MaxInvocations
        /\ invocations' = invocations + 1
        /\ contest_id' = cid
        /\ full_text' = text
        /\ contest_problems' = problems
        /\ response' = None
        /\ parsed' = NotParsed
        /\ matched' = FALSE
        /\ other_contest_count' = 0
        /\ segment' = failed
        /\ IF failed.state = "raised"
           THEN /\ pc' = "done"
                /\ llm_requests' = <<>>
           ELSE /\ pc' = "awaiting_llm"
                /\ llm_requests' = <<LlmRequest(text, cid, ExpectedProblems(problems))>>
        /\ UNCHANGED <<parser, files, call>>

\* llm_client.complete returns r: the rest of _ask_llm_for_segmentation,
\* of _segment_by_problems, of parse_editorial_content and of get_contest.
\* fs_ok says whether the debug file of lines 757-774 can be written.
LLMReturns(r, fs_ok) ==
    LET asked == _parse_llm_response(r, contest_id, ExpectedProblems(contest_problems),
                                     llm_requests[1].editorial_text)
        outcome == SegmentOutcome(asked, contest_id)
        m == Matched(Editorials(outcome.v), contest_id)
    IN  /\ pc = "awaiting_llm"
        /\ pc' = "done"
        /\ response' = r
        /\ parsed' = asked
        /\ segment' = outcome
        /\ files' = IF asked.debug_file # None /\ fs_ok
                    THEN DictPut(files, asked.debug_file[1], asked.debug_file[2])
                    ELSE files
        /\ IF outcome.state = "returned"
           THEN /\ matched' = TRUE
                /\ other_contest_count' = m.other_contest_count
                /\ contest_problems' = WithExplanations(contest_problems, m.explanation_map)
           ELSE UNCHANGED <<matched, other_contest_count, contest_problems>>
        /\ UNCHANGED <<parser, invocations, contest_id, full_text, llm_requests, call>>

\* llm_client.complete raises LLMError: lines 369-371, then line 131 of
\* get_contest
LLMRaises ==
    /\ pc = "awaiting_llm"
    /\ pc' = "done"
    /\ segment' = SegmentOutcome(ProviderError, contest_id)
    /\ UNCHANGED <<parser, files, invocations, contest_id, full_text, contest_problems,
                   llm_requests, response, parsed, matched, other_contest_count, call>>

Next ==
    \/ \E cid \in ContestIds, ids \in ProblemLists, text \in Articles : GetContest(cid, ids, text)
    \/ \E r \in Responses, fs_ok \in BOOLEAN : LLMReturns(r, fs_ok)
    \/ LLMRaises

Spec == Init /\ [][Next]_vars

(***************************************************************************)
(* The leaf methods called directly, as the unit tests call them.  The     *)
(* parser is idle throughout; a behaviour is one call, recorded in call.   *)
(***************************************************************************)
get_contest_vars ==
    <<parser, files, pc, invocations, contest_id, full_text, contest_problems,
      llm_requests, response, parsed, segment, matched, other_contest_count>>

\* the longest article of a direct call of _extract_text_between_markers
MaxTextLen == 4
Texts == UNION {[1..k -> {"a", "b", " "}] : k \in 0..MaxTextLen}
Markers == {<<>>, <<"a">>, <<"b">>, <<"a", "b">>, <<" ">>}

ExtractText(text, start_marker, end_marker) ==
    /\ call[1] = "none"
    /\ call' = <<"_extract_text_between_markers",
               <<text, start_marker, end_marker>>,
               _extract_text_between_markers(text, start_marker, end_marker)>>
    /\ UNCHANGED get_contest_vars

\* the longest enumerated input of a direct call of _sanitize_json_string or
\* _attempt_json_repair; the longer inputs are the documents listed
MaxJsonLen == 4
JsonTexts ==
    UNION {[1..k -> {"{", "}", "\"", "\\", "f", "l"}] : k \in 0..MaxJsonLen}
    \cup {Chars("{\"A\":\"\\frac\"}"), Chars("{\"A\":\"\\leq\"}"), Chars("\"\\u0041\""),
          Chars("{\"a\":\"}\""), Chars("{\"a\":\"[\""), Chars("{\"a\":[1]"), Chars("[{\"a\":1}"),
          Chars("[1,"), Chars("{\"a\":\"x"), Chars(" {\"a\":1 "),
          Chars("{\"a\":\"x\ny\"}"), <<"\"", "\t", "\r", "\f", Backspace, "\"">>,
          Chars("\n{\"a\":\"\\/\\l\t\""), Chars("\\\"\n\"\\\\\\l\\\"\n"),
          Chars("{\"a\":\"x,"), Chars("{\"a\":1, "), Chars("{\"a\":\"x\\\"")}

SanitizeJson(json_str) ==
    /\ call[1] = "none"
    /\ call' = <<"_sanitize_json_string",
               <<json_str>>,
               _sanitize_json_string(json_str)>>
    /\ UNCHANGED get_contest_vars

RepairJson(json_str) ==
    /\ call[1] = "none"
    /\ call' = <<"_attempt_json_repair",
               <<json_str>>,
               _attempt_json_repair(json_str)>>
    /\ UNCHANGED get_contest_vars

\* the longest enumerated problem_id of a direct call of _normalize_problem_id;
\* the longer ones are the identifiers listed, with those of the unit test
MaxIdLen == 3
IdValues ==
    {JStr(s) : s \in UNION {[1..k -> {"a", "B", "1", " ", "."}] : k \in 0..MaxIdLen}}
    \cup {JStr(Chars(s)) : s \in {"A", "c1", "C1", "Problem A", "problem c2", "Problem", "1900A",
                                  "AB", "1900C1", "1900ABC", "123", "D2", "A-B"}}
    \cup {JStr(<<"CYR_ZE", "CYR_A", "CYR_DE", "CYR_A", "CYR_CHE", "CYR_A", " ", "A">>),
          JStr(<<"cyr_ze", "cyr_a", "cyr_de", "cyr_a", "cyr_che", "cyr_a", " ", "c", "1">>),
          JNull, JBool(TRUE), JArr(<<>>), [t |-> "int", v |-> Chars("7")]}

NormalizeId(problem_id) ==
    /\ call[1] = "none"
    /\ call' = <<"_normalize_problem_id",
               <<problem_id>>,
               _normalize_problem_id(problem_id)>>
    /\ UNCHANGED get_contest_vars

\* the most entries in the "problems" list of a direct call of _parse_new_format
MaxEntries == 2
Entries ==
    {JObj(<< <<Chars("contest_id"), c>>, <<Chars("problem_id"), p>>,
             <<Chars("start_marker"), m>>, <<Chars("end_marker"), JStr(<<>>)>> >>) :
        c \in {JStr(Chars("1900")), JStr(Chars("abc")), JNull},
        p \in {JStr(Chars("A")), JStr(Chars("abc")), JStr(Chars(" "))},
        m \in {JStr(Chars("Problem A:")), JStr(Chars("Problem Z:")), JNull}}
    \cup {JStr(Chars("A")),
          JObj(<< <<Chars("problem_id"), JStr(Chars("A"))>>,
                  <<Chars("start_marker"), JStr(Chars("Problem A:"))>> >>)}
EntryLists == UNION {[1..k -> Entries] : k \in 0..MaxEntries}

ParseNewFormat(problems, editorial_text) ==
    /\ call[1] = "none"
    /\ call' = <<"_parse_new_format",
               <<problems, editorial_text>>,
               _parse_new_format(problems, editorial_text)>>
    /\ UNCHANGED get_contest_vars

\* the most URLs in the editorial_urls of a direct call of parse_editorial_content
MaxUrls == 3
PageLists ==
    UNION {[1..k -> {None, ShortArticle, Article \o LongArticle, LongArticle \o Article}] :
              k \in 0..MaxUrls}

\* parse_editorial_content up to its call of _segment_by_problems (line 87)
ParseEditorialContent(pages) ==
    /\ call[1] = "none"
    /\ call' = <<"parse_editorial_content", <<pages>>, parse_editorial_content(pages)>>
    /\ UNCHANGED get_contest_vars

\* _ask_llm_for_segmentation up to its provider call (line 460), on the
\* first k characters of LongArticle: shorter than, as long as and longer
\* than max_chars
AskLlm(editorial_text) ==
    /\ call[1] = "none"
    /\ call' = <<"_ask_llm_for_segmentation", <<editorial_text>>,
               LlmRequest(editorial_text, Chars("1900"), None)>>
    /\ UNCHANGED get_contest_vars

\* a direct call of _find_matching_brace with the "{" at position start
FindMatchingBrace(text, start) ==
    /\ call[1] = "none"
    /\ call' = <<"_find_matching_brace", <<text, start>>, _find_matching_brace(text, start)>>
    /\ UNCHANGED get_contest_vars

\* responses without a fenced block: the enumerated texts, and objects
\* with prose around them
UnfencedResponses ==
    JsonTexts \cup {ResponseNoJson, ResponseTruncated, ResponseBroken, ResponseLegacy,
                    Chars("ok {\"A\":\"Sort {it}.\"} bye }"), Chars("see {\"A\":\"\\\\\"} {}"),
                    Chars("{\" \":\"Sort it.\",\"A\":\"x\"}"),
                    Chars("{\"problems\":\"later\",\"a\":\" x \",\"B\":\" \",\"C\":1,\"!\":\"y\"}")}

\* _parse_llm_response on a response that takes the path of lines 720-746,
\* with the json_content of lines 729-731
ParseBracedResponse(reply) ==
    /\ call[1] = "none"
    /\ call' = <<"_parse_llm_response", <<reply>>,
                 [json_content |-> BracedContent(reply),
                  out |-> _parse_llm_response(reply, Chars("1900"), None,
                                              Chars("Problem A: Sort."))]>>
    /\ UNCHANGED get_contest_vars

LeafInit == Init /\ parser.llm_client # None

LeafNext ==
    \/ \E text \in Texts, start_marker \in Markers, end_marker \in Markers :
          ExtractText(text, start_marker, end_marker)
    \/ \E json_str \in JsonTexts : SanitizeJson(json_str)
    \/ \E json_str \in JsonTexts : RepairJson(json_str)
    \/ \E problem_id \in IdValues : NormalizeId(problem_id)
    \/ \E problems \in EntryLists : ParseNewFormat(problems, Chars("Problem A: Sort."))
    \/ \E pages \in PageLists : ParseEditorialContent(pages)
    \/ \E k \in 0..Len(LongArticle) : AskLlm(Slice(LongArticle, 1, k))
    \/ \E text \in JsonTexts : \E start \in {i \in 1..Len(text) : text[i] = "{"} :
          FindMatchingBrace(text, start)
    \/ \E reply \in UnfencedResponses : ParseBracedResponse(reply)

LeafSpec == LeafInit /\ [][LeafNext]_vars

(***************************************************************************)
(* The properties checked, by claim.                                      *)
(***************************************************************************)

\* C1: every value of the result segment returns is a substring of the
\* article text that was passed in.
C1_ValuesAreVerbatim ==
    segment.state = "returned" =>
        \A n \in 1..Len(segment.v) : Contains(full_text, segment.v[n][2])

\* C1, the case it fails in: an article longer than max_chars, segmented by
\* markers, whose last entry runs to the end of the text.
C1_NoticeInResult ==
    /\ segment.state = "returned"
    /\ full_text = LongArticle
    /\ response = ResponseMarkers
    /\ \E n \in 1..Len(segment.v) :
          /\ Contains(segment.v[n][2], Chars("[CONTENT TRUNCATED DUE TO LENGTH]"))
          /\ ~Contains(full_text, segment.v[n][2])

\* C2: a response is given up only after the brace-matched extraction has
\* been applied to it and, where it has a "{", the repair too.
C2_AllStrategiesTried ==
    parsed.exc = "LLMSegmentationError" =>
        /\ \E k \in 1..Len(parsed.tried) : parsed.tried[k] = "brace"
        /\ Contains(response, <<"{">>) =>
              \E k \in 1..Len(parsed.tried) : parsed.tried[k] = "repair"

\* C2, the case it fails in: the fenced block does not parse, the response
\* is given up at once, and the extraction from its first "{" parses.
C2_FencedGivenUp ==
    /\ response = ResponseFencedNote
    /\ parsed.exc = "LLMSegmentationError"
    /\ parsed.tried = <<"fenced">>
    /\ ParseBraced(response, contest_id, full_text).exc = ""

\* C3: after the matcher has run for contest C, the explanation of every
\* problem P is the text of the entry (C, uppercase(P.id)) of the result if
\* there is one, and null otherwise.
C3_ExplanationIsEntry ==
    matched =>
        \A n \in 1..Len(contest_problems) :
            contest_problems[n].explanation =
                IF DictHas(segment.v, <<contest_id, Upper(contest_problems[n].id)>>)
                THEN DictGet(segment.v, <<contest_id, Upper(contest_problems[n].id)>>)
                ELSE None

C3_MatchedByLetter ==
    /\ matched
    /\ contest_id = Chars("1900")
    /\ response = ResponseMarkers
    /\ full_text = Article
    /\ contest_problems[1].id = Chars("a")
    /\ contest_problems[1].explanation = Chars("sort the array.")
    /\ contest_problems[2].explanation = Chars("use dp \\leq n. The end.")
    /\ contest_problems[3].explanation = None

\* C4: an entry of another contest is never the explanation of a problem
\* of the requested contest, and the skipped count is the number of such
\* entries, so that own entries plus skipped entries are all entries.
C4_OtherContestsSkipped ==
    matched =>
        LET own == {n \in 1..Len(segment.v) : segment.v[n][1][1] = contest_id}
            other == {n \in 1..Len(segment.v) : segment.v[n][1][1] # contest_id}
        IN  /\ other_contest_count = Cardinality(other)
            /\ Cardinality(own) + other_contest_count = Len(segment.v)
            /\ \A k \in 1..Len(contest_problems) : \A n \in other :
                  contest_problems[k].explanation = segment.v[n][2] =>
                      \E m \in own :
                          /\ segment.v[m][1][2] = Upper(contest_problems[k].id)
                          /\ segment.v[m][2] = segment.v[n][2]

C4_SiblingDivision ==
    /\ matched
    /\ contest_id = Chars("1900")
    /\ response = ResponseTwoDivisions
    /\ full_text = Article
    /\ Len(segment.v) = 2
    /\ segment.v[2][1] = <<Chars("1901"), Chars("A")>>
    /\ other_contest_count = 1
    /\ contest_problems[1].explanation = Chars("sort the array.")

\* C5: every value of the mapping the normalizer returns is a string that
\* is neither empty nor blank.
C5_ValuesNonEmpty ==
    parsed.exc = "" =>
        \A n \in 1..Len(parsed.v) :
            /\ parsed.v[n][2] # None
            /\ Len(parsed.v[n][2]) > 0
            /\ Strip(parsed.v[n][2]) # <<>>

C5_BlankEntryDropped ==
    /\ response = ResponseInline
    /\ parsed.exc = ""
    /\ Len(parsed.v) = 1
    /\ parsed.v[1] = << <<Chars("1900"), Chars("A")>>, Chars("Sort it.") >>

\* C6: with no provider configured, and with an article shorter than 50
\* characters, segment raises LLMSegmentationError and no provider call is
\* made.
C6_FailsBeforeCall ==
    (invocations > 0 /\ (parser.llm_client = None \/ Len(full_text) < 50)) =>
        /\ pc = "done"
        /\ segment.state = "raised"
        /\ segment.exc = "LLMSegmentationError"
        /\ llm_requests = <<>>

C6_ShortArticleRejected ==
    /\ pc = "done"
    /\ parser.llm_client # None
    /\ full_text = ShortArticle
    /\ segment.exc = "LLMSegmentationError"
    /\ llm_requests = <<>>

\* C7: whatever fails in segment, the error that leaves it is an
\* LLMSegmentationError carrying the contest identifier.
C7_OnlySegmentationError ==
    segment.state = "raised" =>
        /\ segment.exc = "LLMSegmentationError"
        /\ segment.contest_id = contest_id

C7_NormalizerErrorWrapped ==
    /\ response = ResponseNullMarker
    /\ parsed.exc = "AttributeError"
    /\ segment.state = "raised"
    /\ segment.exc = "LLMSegmentationError"
    /\ segment.contest_id = contest_id

\* C8: when every recovery strategy has failed for a response, the error
\* segment raises carries the raw response.
C8_ErrorCarriesResponse ==
    (segment.state = "raised" /\ parsed.exc = "LLMSegmentationError") =>
        segment.llm_response = response

\* C8, the case it fails in: the error _parse_llm_response raised has the
\* response, the error that leaves segment has none.
C8_ResponseDropped ==
    /\ response = ResponseNoJson
    /\ parsed.exc = "LLMSegmentationError"
    /\ parsed.llm_response = response
    /\ segment.state = "raised"
    /\ segment.llm_response = None

\* C9 as stated: every finished invocation has made exactly one provider
\* call.
C9_ExactlyOneCall ==
    pc = "done" => Len(llm_requests) = 1

\* C9, amended: an invocation makes at most one provider call, with
\* temperature 0; it makes one exactly when a provider is configured and
\* the stripped article has at least 50 characters, and none otherwise.
C9_AtMostOneCall ==
    /\ Len(llm_requests) <= 1
    /\ \A n \in 1..Len(llm_requests) : llm_requests[n].temperature = 0
    /\ invocations > 0 =>
          (Len(llm_requests) = 1 <=>
              (parser.llm_client # None /\ Len(Strip(full_text)) >= 50))
    /\ pc = "awaiting_llm" => Len(llm_requests) = 1

C9_NoRetryAfterNothing ==
    /\ pc = "done"
    /\ response = ResponseNowhere
    /\ parsed.exc = ""
    /\ parsed.v = <<>>
    /\ segment.state = "raised"
    /\ Len(llm_requests) = 1
    /\ llm_requests[1].temperature = 0

FirstAt(text, m, i, from) ==
    /\ i >= from
    /\ MatchAt(text, m, i)
    /\ \A j \in from..(i - 1) : ~MatchAt(text, m, j)
SpanOf(text, s, e, p, q) ==
    /\ FirstAt(text, s, p - Len(s), 1)
    /\ IF e # <<>> /\ \E i \in p..(Len(text) + 1) : MatchAt(text, e, i)
       THEN FirstAt(text, e, q, p)
       ELSE q = Len(text) + 1
Blank(text, p, q) == \A i \in p..(q - 1) : IsSpace(text[i])
Extracted == call[1] = "_extract_text_between_markers" /\ Contains(call[2][1], call[2][2])

\* C11 as stated: when the start marker occurs, the result is exactly the
\* text between the end of its first occurrence and the first occurrence
\* of the end marker at or after it, or the end of the text.
C11_ExactSpan ==
    Extracted =>
        \E p, q \in 1..(Len(call[2][1]) + 1) :
            /\ SpanOf(call[2][1], call[2][2], call[2][3], p, q)
            /\ call[3] = Slice(call[2][1], p, q - 1)

\* C11, amended: the result is that span with the whitespace at its two
\* ends removed.
C11_SpanStripped ==
    Extracted =>
        \E p, q \in 1..(Len(call[2][1]) + 1) :
            /\ SpanOf(call[2][1], call[2][2], call[2][3], p, q)
            /\ \/ Blank(call[2][1], p, q) /\ call[3] = <<>>
               \/ \E i, j \in p..(q - 1) :
                     /\ i <= j
                     /\ ~IsSpace(call[2][1][i]) /\ ~IsSpace(call[2][1][j])
                     /\ Blank(call[2][1], p, i) /\ Blank(call[2][1], j + 1, q)
                     /\ call[3] = Slice(call[2][1], i, j)

C11_FirstEndAfterStart ==
    /\ call[1] = "_extract_text_between_markers"
    /\ call[2] = << <<"b", " ", "a", "b">>, <<"b">>, <<"b">> >>
    /\ call[3] = <<"a">>

\* C12 as stated: when the start marker occurs, the result is not empty and
\* its first occurrence in the text is where the extraction started.
C12_RelocatesAtStart ==
    Extracted =>
        /\ call[3] # <<>>
        /\ Find(call[2][1], call[3]) = Find(call[2][1], call[2][2]) + Len(call[2][2])

\* C12, amended: the result is empty exactly when the span is blank;
\* otherwise it occurs in the text right after the whitespace that follows
\* the start of the extraction (not necessarily for the first time).
C12_OccursAfterStart ==
    Extracted =>
        \E p, q \in 1..(Len(call[2][1]) + 1) :
            /\ SpanOf(call[2][1], call[2][2], call[2][3], p, q)
            /\ call[3] = <<>> <=> Blank(call[2][1], p, q)
            /\ call[3] # <<>> =>
                  \E k \in 0..Len(call[2][1]) :
                      /\ Blank(call[2][1], p, p + k)
                      /\ MatchAt(call[2][1], call[3], p + k)
                      /\ ~IsSpace(call[3][1])
                      /\ p + k + Len(call[3]) <= q

C12_OccursEarlier ==
    /\ call[1] = "_extract_text_between_markers"
    /\ call[2] = << <<"a", "b", "a">>, <<"b">>, <<>> >>
    /\ call[3] = <<"a">>
    /\ Find(call[2][1], call[3]) = 1

\* C13: a string that json.loads accepts comes back from
\* _sanitize_json_string unchanged, character for character.
C13_ValidUnchanged ==
    (call[1] = "_sanitize_json_string" /\ JsonLoads(call[2][1]).ok) =>
        call[3] = call[2][1]

C13_UnicodeEscapeKept ==
    /\ call[1] = "_sanitize_json_string"
    /\ call[2][1] = Chars("\"\\u0041\"")
    /\ JsonLoads(call[2][1]).ok
    /\ call[3] = call[2][1]

\* a run of letters and backslashes in which every backslash is alone and
\* begins a command: it is followed by a letter
LatexShaped(b) ==
    /\ \E i \in 1..Len(b) : b[i] = "\\"
    /\ \A i \in 1..Len(b) :
          /\ IsAlpha(b[i]) \/ b[i] = "\\"
          /\ b[i] = "\\" => (i < Len(b) /\ IsAlpha(b[i + 1]))

\* C14: when a string value of the response holds unescaped LaTeX commands,
\* sanitizing and then parsing the response yields that value verbatim,
\* every backslash and letter intact.  Stated for a response that is one
\* string, and for an object with the one key "A".
C14_LatexVerbatim ==
    call[1] = "_sanitize_json_string" =>
        LET s == call[2][1]
            n == Len(s)
        IN  /\ (n >= 2 /\ s[1] = "\"" /\ s[n] = "\"" /\ LatexShaped(Slice(s, 2, n - 1))) =>
                  JsonLoads(call[3]) = [ok |-> TRUE, v |-> JStr(Slice(s, 2, n - 1))]
            /\ (n >= 8 /\ Slice(s, 1, 6) = Chars("{\"A\":\"") /\ Slice(s, n - 1, n) = Chars("\"}")
                  /\ LatexShaped(Slice(s, 7, n - 2))) =>
                  JsonLoads(call[3]) =
                      [ok |-> TRUE, v |-> JObj(<< <<Chars("A"), JStr(Slice(s, 7, n - 2))>> >>)]

C14_FracBecomesFormFeed ==
    /\ call[1] = "_sanitize_json_string"
    /\ call[2][1] = Chars("{\"A\":\"\\frac\"}")
    /\ JsonLoads(call[3]) = [ok |-> TRUE, v |-> JObj(<< <<Chars("A"), JStr(<<"\f", "r", "a", "c">>)>> >>)]

\* the escaped command of the unit tests does come back verbatim
C14_LeqVerbatim ==
    /\ call[1] = "_sanitize_json_string"
    /\ call[2][1] = Chars("{\"A\":\"\\leq\"}")
    /\ JsonLoads(call[3]) = [ok |-> TRUE, v |-> JObj(<< <<Chars("A"), JStr(Chars("\\leq"))>> >>)]

\* C15: _attempt_json_repair returns None or a string, and a string it
\* returns is accepted by json.loads.
C15_RepairedParses ==
    call[1] = "_attempt_json_repair" =>
        call[3] = None \/ JsonLoads(call[3]).ok

C15_ClosedAndParsed ==
    /\ call[1] = "_attempt_json_repair"
    /\ call[2][1] = Chars("{\"a\":[1]")
    /\ call[3] = Chars("{\"a\":[1]}")
    /\ JsonLoads(call[3]).ok

\* C16: a valid JSON document without its final closing brace or bracket
\* is repaired: the result is a string and it parses.
C16_TruncatedCloserRepaired ==
    (/\ call[1] = "_attempt_json_repair"
     /\ \E closer \in {"}", "]"} : JsonLoads(Append(call[2][1], closer)).ok) =>
        (call[3] # None /\ JsonLoads(call[3]).ok)

C16_BraceInStringGivenUp ==
    /\ call[1] = "_attempt_json_repair"
    /\ call[2][1] = Chars("{\"a\":\"}\"")
    /\ JsonLoads(Append(call[2][1], "}")).ok
    /\ call[3] = None

\* an entry the claims call well-formed: an object whose contest id, problem
\* id and start marker are non-empty strings, the marker occurring in the text
FilledIn(val) == val.t = "str" /\ Strip(val.v) # <<>>
Usable(e, text) ==
    /\ e.t = "obj"
    /\ FilledIn(ItemGet(e.v, Chars("contest_id")))
    /\ FilledIn(ItemGet(e.v, Chars("problem_id")))
    /\ FilledIn(ItemGet(e.v, Chars("start_marker")))
    /\ Contains(text, Strip(ItemGet(e.v, Chars("start_marker")).v))
KeyOf(e) ==
    <<Strip(ItemGet(e.v, Chars("contest_id")).v),
      _normalize_problem_id(ItemGet(e.v, Chars("problem_id"))).v>>

\* C17: a marker-shape entry that is not an object, lacks a non-empty
\* contest id, problem id or start marker, or whose marker is not in the
\* article, is dropped; the other entries are extracted and the request
\* does not fail.
C17_BadEntriesOnlyDropped ==
    call[1] = "_parse_new_format" =>
        /\ call[3].exc = ""
        /\ \A n \in 1..Len(call[2][1]) :
              Usable(call[2][1][n], call[2][2]) =>
                  \E k \in 1..Len(call[3].v) : call[3].v[k][1] = KeyOf(call[2][1][n])
        /\ \A k \in 1..Len(call[3].v) :
              \E n \in 1..Len(call[2][1]) :
                  /\ Usable(call[2][1][n], call[2][2])
                  /\ call[3].v[k][1] = KeyOf(call[2][1][n])

C17_NullMarkerFailsAll ==
    /\ call[1] = "_parse_new_format"
    /\ Len(call[2][1]) = 2
    /\ Usable(call[2][1][1], call[2][2])
    /\ call[2][1][2].t = "obj"
    /\ ItemGet(call[2][1][2].v, Chars("start_marker")) = JNull
    /\ call[3].exc = "AttributeError"

C17_NullContestKept ==
    /\ call[1] = "_parse_new_format"
    /\ Len(call[2][1]) = 1
    /\ call[2][1][1].t = "obj"
    /\ ItemGet(call[2][1][1].v, Chars("contest_id")) = JNull
    /\ call[3].exc = ""
    /\ call[3].v = << <<<<Chars("None"), Chars("A")>>, Chars("Sort.")>> >>

Digits(s) == \A i \in 1..Len(s) : IsDigit(s[i])
Letters(s) == \A i \in 1..Len(s) : IsAlpha(s[i])
\* "X" of "Problem X": a letter, or a letter and a digit
LetterToken(x) ==
    /\ Len(x) \in 1..2
    /\ IsAlpha(x[1])
    /\ Len(x) = 2 => IsDigit(x[2])
PhrasePrefixes ==
    {Chars("PROBLEM "), <<"CYR_ZE", "CYR_A", "CYR_DE", "CYR_A", "CYR_CHE", "CYR_A", " ">>}

C19_NormalizationTotal ==
    call[1] = "_normalize_problem_id" =>
        /\ call[3].exc = ""
        /\ (call[2][1].t # "str" \/ \A i \in 1..Len(call[2][1].v) : ~IsAlpha(call[2][1].v[i])) =>
              call[3].v = None

C19_BlankRaises ==
    /\ call[1] = "_normalize_problem_id"
    /\ call[2][1] = JStr(Chars(" "))
    /\ call[3].exc = "IndexError"

\* C20: every key of the result is a pair of a contest identifier, a
\* non-empty string of digits or the unknown-contest sentinel None, and a
\* problem letter of 1 or 2 uppercase alphanumeric characters beginning
\* with a letter.
C20_KeysWellFormed ==
    (call[1] = "_parse_new_format" /\ call[3].exc = "") =>
        \A k \in 1..Len(call[3].v) :
            LET key == call[3].v[k][1] IN
            /\ key[1] = None \/ (key[1] # <<>> /\ Digits(key[1]))
            /\ Len(key[2]) \in 1..2
            /\ IsUpper(key[2][1])
            /\ \A i \in 1..Len(key[2]) : IsUpper(key[2][i]) \/ IsDigit(key[2][i])

C20_ThreeLetterKey ==
    /\ call[1] = "_parse_new_format"
    /\ call[3].exc = ""
    /\ Len(call[3].v) = 1
    /\ call[3].v[1][1] = <<Chars("abc"), Chars("ABC")>>

\* the page of a URL that loaded and holds an article
Loaded(page) == page # None /\ Len(Strip(page)) >= MinContentLength
\* the loaded pages n.. occur in text from position from on, one after the
\* other in the order of their URLs
RECURSIVE InUrlOrder(_, _, _, _)
InUrlOrder(text, from, pages, n) ==
    IF n > Len(pages) THEN TRUE
    ELSE IF ~Loaded(pages[n]) THEN InUrlOrder(text, from, pages, n + 1)
    ELSE /\ FindFrom(text, pages[n], from) # 0
         /\ InUrlOrder(text, FindFrom(text, pages[n], from) + Len(pages[n]), pages, n + 1)

\* C21: parse_editorial_content raises EditorialNotFoundError for an empty
\* URL list, raises EditorialContentFetchError without a provider call when
\* no URL loads, and otherwise goes on to segmentation with the pages that
\* loaded, in URL order, the others being skipped.
C21_FetchOutcomes ==
    call[1] = "parse_editorial_content" =>
        LET pages == call[2][1]
            loaded == {n \in 1..Len(pages) : Loaded(pages[n])}
        IN  /\ pages = <<>> => call[3].exc = "EditorialNotFoundError"
            /\ (pages # <<>> /\ loaded = {}) =>
                  (call[3].exc = "EditorialContentFetchError" /\ llm_requests = <<>>)
            /\ loaded # {} =>
                  /\ call[3].exc = ""
                  /\ InUrlOrder(call[3].v, 1, pages, 1)
                  /\ \A n \in 1..Len(pages) :
                        (pages[n] # None /\ ~Loaded(pages[n])) => ~Contains(call[3].v, pages[n])
                  /\ Cardinality(loaded) = 1 => \E n \in loaded : call[3].v = pages[n]

C21_FailedUrlBetween ==
    /\ call[1] = "parse_editorial_content"
    /\ call[2][1] = <<Article \o LongArticle, None, LongArticle \o Article>>
    /\ call[3].exc = ""
    /\ Find(call[3].v, Article \o LongArticle) < Find(call[3].v, LongArticle \o Article)

\* C22: when editorial parsing raises during get_contest, get_contest
\* returns the contest with all of its problems and every explanation is
\* None; explanations are assigned for the whole problem list (each problem
\* gets the entry of its letter, or None) or for none of it.
C22_AllOrNothing ==
    pc = "done" =>
        /\ \E ids \in ProblemLists :
              [n \in 1..Len(contest_problems) |-> [contest_problems[n] EXCEPT !.explanation = None]]
                  = ContestProblems(contest_id, ids)
        /\ segment.state = "raised" =>
              (~matched /\ \A n \in 1..Len(contest_problems) : contest_problems[n].explanation = None)
        /\ segment.state = "returned" =>
              /\ matched
              /\ \A n \in 1..Len(contest_problems) :
                    LET letter == Upper(contest_problems[n].id)
                        mine == {k \in 1..Len(segment.v) :
                                    /\ segment.v[k][1][1] = contest_id
                                    /\ Upper(segment.v[k][1][2]) = letter}
                    IN  IF mine = {} THEN contest_problems[n].explanation = None
                        ELSE contest_problems[n].explanation = segment.v[SetMax(mine)][2]

C22_ParsingRaised ==
    /\ pc = "done"
    /\ response = ResponseNullMarker
    /\ segment.state = "raised"
    /\ Len(contest_problems) = 3
    /\ \A n \in 1..3 : contest_problems[n].explanation = None

\* C23: the expected-problems list never changes the result: for the
\* response and the article of the invocation, _parse_llm_response gives
\* the same outcome for every list of expected problems, None included;
\* entries that are not in the list are kept, and a listed problem the
\* response leaves out is no error.
C23_ExpectedNeverFilters ==
    (pc = "done" /\ response # None) =>
        \A expected_problems \in {None, <<>>, << <<Chars("1901"), Chars("Z")>> >>,
                                   ExpectedProblems(contest_problems)} :
            LET alt == _parse_llm_response(response, contest_id, expected_problems,
                                           llm_requests[1].editorial_text)
            IN  alt.exc = parsed.exc /\ alt.v = parsed.v

C23_UnlistedKeptListedMissing ==
    /\ pc = "done"
    /\ response = ResponseTwoDivisions
    /\ contest_id = Chars("1900")
    /\ segment.state = "returned"
    /\ \E k \in 1..Len(segment.v) : segment.v[k][1] = <<Chars("1901"), Chars("A")>>
    /\ \A n \in 1..Len(contest_problems) :
          <<Chars("1901"), Chars("A")>> # ExpectedProblems(contest_problems)[n]
    /\ \E n \in 1..Len(contest_problems) :
          \A k \in 1..Len(segment.v) : segment.v[k][1] # ExpectedProblems(contest_problems)[n]

\* C24: the prompt embeds at most max_chars characters of the article (the
\* 300,000 of line 395): a longer article is sent as its first max_chars
\* characters followed by the "[CONTENT TRUNCATED" notice, a shorter one or
\* one of exactly max_chars characters whole and without the notice.
C24_PromptBudget ==
    call[1] = "_ask_llm_for_segmentation" =>
        LET text == call[2][1]
            sent == call[3].editorial_text
        IN  IF Len(text) > max_chars
            THEN /\ Slice(sent, 1, max_chars) = Slice(text, 1, max_chars)
                 /\ MatchAt(sent, Chars("[CONTENT TRUNCATED"), max_chars + 3)
                 /\ Len(sent) = max_chars + Len(TruncationNotice)
            ELSE sent = text

C24_OneOverBudget ==
    /\ call[1] = "_ask_llm_for_segmentation"
    /\ Len(call[2][1]) = max_chars + 1
    /\ call[3].editorial_text = Slice(call[2][1], 1, max_chars) \o TruncationNotice

\* the position i of s lies inside a string literal: an odd number of quotes
\* that are preceded by an even number of backslashes stand before it
InsideString(s, i) ==
    Cardinality({j \in 1..(i - 1) : s[j] = "\"" /\ BackslashesBefore(s, j - 1) % 2 = 0}) % 2 = 1

\* what the character at position i is rewritten to
RewrittenAt(s, i) ==
    LET c == s[i]
        paired == BackslashesBefore(s, i - 1) % 2 = 1
        recognized(d) == d \in {"\"", "n", "t", "r", "b", "f", "/", "\\"}
    IN  IF c = "\"" \/ ~InsideString(s, i) THEN <<c>>
        ELSE IF c = "\\" THEN
            IF ~paired /\ ~(i < Len(s) /\ recognized(s[i + 1])) THEN <<"\\", "\\">> ELSE <<c>>
        ELSE IF paired /\ recognized(c) THEN <<c>>
        ELSE IF c = "\n" THEN <<"\\", "n">>
        ELSE IF c = "\t" THEN <<"\\", "t">>
        ELSE IF c = "\r" THEN <<"\\", "r">>
        ELSE IF c = Backspace THEN <<"\\", "b">>
        ELSE IF c = "\f" THEN <<"\\", "f">>
        ELSE <<c>>

RECURSIVE RewrittenFrom(_, _)
RewrittenFrom(s, i) == IF i > Len(s) THEN <<>> ELSE RewrittenAt(s, i) \o RewrittenFrom(s, i + 1)

\* C25: on a text that json.loads rejects, _sanitize_json_string returns the
\* characters of the text in order, each rewritten by its place: a quote and
\* a character outside a string literal unchanged; inside a string literal a
\* raw newline, tab, carriage return, backspace or form feed as its
\* two-character escape, a backslash that begins no recognized escape pair
\* doubled, every other character and every recognized pair unchanged.
C25_SanitizeRewrites ==
    (call[1] = "_sanitize_json_string" /\ ~JsonLoads(call[2][1]).ok) =>
        call[3] = RewrittenFrom(call[2][1], 1)

C25_NewlineOutsideSolidusInside ==
    /\ call[1] = "_sanitize_json_string"
    /\ call[2][1] = Chars("\n{\"a\":\"\\/\\l\t\"")
    /\ ~JsonLoads(call[2][1]).ok
    /\ call[3] = Chars("\n{\"a\":\"\\/\\\\l\\t\"")

UnescapedQuotes(s) ==
    Cardinality({j \in 1..Len(s) : s[j] = "\"" /\ BackslashesBefore(s, j - 1) % 2 = 0})
WithClosingQuote(s) == IF UnescapedQuotes(s) % 2 = 1 THEN Append(s, "\"") ELSE s
WithoutTrailingComma(s) ==
    IF RStrip(s) # <<>> /\ RStrip(s)[Len(RStrip(s))] = ","
    THEN RStrip(Slice(RStrip(s), 1, Len(RStrip(s)) - 1)) ELSE RStrip(s)
\* one "]" per unmatched "[" of base, then one "}" per unmatched "{"
WithClosers(s, base) ==
    s \o Repeat("]", Count(base, "[") - Count(base, "]"))
      \o Repeat("}", Count(base, "{") - Count(base, "}"))
TrimThenQuote(s) == WithClosers(WithClosingQuote(WithoutTrailingComma(Strip(s))), Strip(s))
QuoteThenTrim(s) == WithClosers(WithoutTrailingComma(WithClosingQuote(Strip(s))), Strip(s))

\* C26 as claimed: a string _attempt_json_repair returns is the text with
\* trailing whitespace and a trailing comma trimmed first, then a closing
\* quote appended if the quotes are odd, then "]" and "}" appended.
C26_TrimFirst ==
    (call[1] = "_attempt_json_repair" /\ call[3] # None) =>
        call[3] = TrimThenQuote(call[2][1])

\* C26, amended: the candidate of _attempt_json_repair is the text stripped
\* at both ends, with a closing quote appended first if the unescaped quotes
\* are odd, trailing whitespace and a trailing comma trimmed after that,
\* then "]" and "}" appended; it is returned when json.loads accepts it,
\* and None is returned otherwise.
C26_QuoteFirst ==
    call[1] = "_attempt_json_repair" =>
        call[3] = IF JsonLoads(QuoteThenTrim(call[2][1])).ok
                  THEN QuoteThenTrim(call[2][1]) ELSE None

C26_CommaKeptInsideString ==
    /\ call[1] = "_attempt_json_repair"
    /\ call[2][1] = Chars("{\"a\":\"x,")
    /\ call[3] = Chars("{\"a\":\"x,\"}")

\* the character at position i is neither a backslash nor escaped by one,
\* within the scan that begins at start
Unescaped(text, start, i) ==
    i = start \/ (text[i] # "\\" /\ BackslashesBefore(text, i - 1) % 2 = 0)
\* position i lies inside a quoted string that opened at or after start
Quoted(text, start, i) ==
    Cardinality({j \in start..(i - 1) : text[j] = "\"" /\ Unescaped(text, start, j)}) % 2 = 1
\* the braces of start..i outside quoted strings, opening less closing;
\* counted(j) says which of them count
OpenBraces(text, start, i, counted(_)) ==
    Cardinality({j \in start..i : text[j] = "{" /\ ~Quoted(text, start, j) /\ counted(j)})
    - Cardinality({j \in start..i : text[j] = "}" /\ ~Quoted(text, start, j) /\ counted(j)})
\* the first counted "}" outside quoted strings that brings the braces to
\* balance, 0 when there is none
ClosingBrace(text, start, counted(_)) ==
    LET closes == {i \in start..Len(text) :
                      /\ text[i] = "}" /\ ~Quoted(text, start, i) /\ counted(i)
                      /\ OpenBraces(text, start, i, counted) = 0}
    IN  IF closes = {} THEN 0 ELSE CHOOSE i \in closes : \A k \in closes : i <= k
\* the candidate of an unfenced response, given the closing brace
CandidateOf(reply, close) ==
    Strip(Slice(reply, Find(reply, <<"{">>), IF close = 0 THEN Len(reply) ELSE close))

\* C27 as claimed: _find_matching_brace counts every brace outside quoted
\* strings, a quote escaped by a backslash opening or closing no string.
C27_EveryBraceOutsideStrings ==
    call[1] = "_find_matching_brace" =>
        call[3] = ClosingBrace(call[2][1], call[2][2], LAMBDA j : TRUE)

\* C27, amended: _find_matching_brace skips the character after an
\* unescaped backslash inside and outside quoted strings, so an escaped
\* quote opens or closes no string and an escaped brace is not counted; it
\* returns the first counted "}" that balances the "{" at start, or nothing.
\* An unfenced response without "{" fails with LLMSegmentationError; of any
\* other the candidate runs from the first "{" to that "}", or to the end
\* of the response when there is none, stripped.
C27_BraceMatching ==
    /\ call[1] = "_find_matching_brace" =>
          call[3] = ClosingBrace(call[2][1], call[2][2], LAMBDA j : Unescaped(call[2][1], call[2][2], j))
    /\ call[1] = "_parse_llm_response" =>
          IF Find(call[2][1], <<"{">>) = 0
          THEN call[3].json_content = None /\ call[3].out.exc = "LLMSegmentationError"
          ELSE call[3].json_content =
                  CandidateOf(call[2][1],
                      ClosingBrace(call[2][1], Find(call[2][1], <<"{">>),
                                   LAMBDA j : Unescaped(call[2][1], Find(call[2][1], <<"{">>), j)))

C27_BraceInStringSkipped ==
    /\ call[1] = "_parse_llm_response"
    /\ call[2][1] = Chars("ok {\"A\":\"Sort {it}.\"} bye }")
    /\ call[3].json_content = Chars("{\"A\":\"Sort {it}.\"}")
    /\ call[3].out.exc = ""

\* content parses to an object that has no "problems" array
LegacyObject(content) ==
    /\ JsonLoads(content).ok
    /\ JsonLoads(content).v.t = "obj"
    /\ ~(/\ DictHas(JsonLoads(content).v.v, Chars("problems"))
          /\ DictGet(JsonLoads(content).v.v, Chars("problems")).t = "arr")
\* the pair of a key and a value yields an entry: the value is a non-blank
\* string and the key normalizes
YieldsEntry(pair) ==
    /\ pair[2].t = "str"
    /\ Strip(pair[2].v) # <<>>
    /\ _normalize_problem_id(JStr(pair[1])).exc = ""
    /\ _normalize_problem_id(JStr(pair[1])).v # None
EntryOf(pair) == << <<None, _normalize_problem_id(JStr(pair[1])).v>>, Strip(pair[2].v) >>

\* C28: when the response parses to an object without a "problems" array,
\* the result holds, under the key (None, normalized key), the trimmed value
\* of each key whose value is a non-blank string and which normalizes, and
\* nothing else: the other keys are skipped, and no key carries the
\* requested contest identifier.
C28_LegacyEntries ==
    (call[1] = "_parse_llm_response" /\ LegacyObject(call[3].json_content)) =>
        LET pairs == JsonLoads(call[3].json_content).v.v
            out == call[3].out
        IN  /\ out.exc = ""
            /\ \A n \in 1..Len(pairs) :
                  YieldsEntry(pairs[n]) =>
                      \E m \in 1..Len(out.v) : out.v[m][1] = EntryOf(pairs[n])[1]
            /\ \A m \in 1..Len(out.v) :
                  /\ out.v[m][1][1] = None
                  /\ \E n \in 1..Len(pairs) : YieldsEntry(pairs[n]) /\ out.v[m] = EntryOf(pairs[n])

C28_BlankKeyRaises ==
    /\ call[1] = "_parse_llm_response"
    /\ call[2][1] = Chars("{\" \":\"Sort it.\",\"A\":\"x\"}")
    /\ LegacyObject(call[3].json_content)
    /\ call[3].out.exc = "IndexError"

\* the keys that normalize are kept under None, the others skipped
C28_LegacyKept ==
    /\ call[1] = "_parse_llm_response"
    /\ LegacyObject(call[3].json_content)
    /\ call[3].out.exc = ""
    /\ call[3].out.v = << <<<<None, Chars("PROBLEMS")>>, Chars("later")>>,
                          <<<<None, Chars("A")>>, Chars("x")>> >>

\* C29: _segment_by_problems never returns an empty result: when the
\* response parsed and normalization left no entry it raises
\* LLMSegmentationError, and a result it returns has at least one entry.
C29_NeverEmptyResult ==
    /\ segment.state = "returned" => segment.v # <<>>
    /\ (pc = "done" /\ parsed.exc = "" /\ parsed.v = <<>>) =>
          /\ segment.state = "raised"
          /\ segment.exc = "LLMSegmentationError"
          /\ ~matched

C29_NoMarkerInArticle ==
    /\ pc = "done"
    /\ response = ResponseNowhere
    /\ parsed.exc = "" /\ parsed.v = <<>>
    /\ segment.state = "raised" /\ segment.exc = "LLMSegmentationError"

====
